---- MODULE Spec2Model ----
(***************************************************************************)
(* Model of ygg/release.mjs: the release script that bumps the versions of *)
(* the workspace packages, publishes them and restores the manifests.      *)
(*                                                                         *)
(* The main flow is one async function body (top-level await); the bump,   *)
(* dist-tag and restore phases fan out into one async task per package.    *)
(* Every action below is one continuation of the event loop: the code that *)
(* runs, without interruption, when one awaited operation completes.       *)
(* External processes (npm, git) return a nondeterministic exit code.      *)
(* Reads and writes of package.json are assumed to succeed.                *)
(***************************************************************************)
EXTENDS Integers, Sequences, FiniteSets, TLC

\* ---------------------------------------------------------------- bounds
MaxPkgs == 2

\* ------------------------------------------------------------ workspace
\* Packages 1..MaxPkgs are public packages of the scope; three more entries
\* of the workspace are the ones the discovery filter drops.
PrivatePkg == MaxPkgs + 1
RootPkg == MaxPkgs + 2
ForeignPkg == MaxPkgs + 3
Workspace == 1..(MaxPkgs + 3)

Undefined == "undefined"
GitHeadNow == "HEAD"
Plain == "1.0.0"
Prerelease == "1.0.1-git.TAG"
Garbage == "not-semver"
Versions == {Plain, Prerelease, Garbage}
NotLoaded == [version |-> "?", gitHead |-> "?"]
NoKey == <<0, "">>
\* changePackageOptions returning null, as seen through ?.version
Null == [version |-> Undefined, gitHead |-> Undefined]
NoLine == [vold |-> "", vnew |-> ""]

VARIABLES
  argsType,          \* args.type: "ci", some other value, or undefined
  pc,                \* position of the main flow
  error,             \* the exception in flight / the one the process ends with
  pendingError,      \* exception held by the inner try while postpublish runs
  packages,          \* the discovered packages (ids)
  pkg,               \* the records npm query returned for them
  disk,              \* version and gitHead fields of every package.json
  bump,              \* position of each bump task
  viewCode,          \* what npm view answered to each bump task
  packagesToRelease, \* the Map's keys, in insertion order
  dtag,              \* position of each dist-tag task
  rest,              \* position of each restore task
  restoreLog,        \* the line the restore task printed
  calls,             \* every external process spawned, in spawn order
  console,           \* the phase headers printed
  writes,            \* which phases called writeFile on each package.json
  codes              \* how each process of the main flow exited

vars == <<argsType, pc, error, pendingError, packages, pkg, disk, bump,
          viewCode, packagesToRelease, dtag, rest, restoreLog, calls,
          console, writes, codes>>

MainCommands == {"query", "describe", "revparse", "prepublish", "publish",
                 "postpublish"}

\* the exit code of an awaited process, as the code tests it (code !== 0)
Exited(c, ok) == codes' = [codes EXCEPT ![c] = IF ok THEN "ok" ELSE "fail"]

Call(cmd, key) == [cmd |-> cmd, key |-> key]

\* -------------------------------------------------------- pure functions
\* packages filter: not private, not the root, inside the scope
Discover(ws) == {p \in ws : p # PrivatePkg /\ p # RootPkg /\ p # ForeignPkg}

\* semver.inc(vold, "prerelease", "git.<tag>", false): null for a version
\* that does not parse and for one that already carries the identifier.
SemverInc(v) == IF v = Plain THEN Prerelease ELSE Undefined

\* `${pkg.name}@${vnew}`
PkgFullName(p) == <<p, SemverInc(pkg[p].version)>>

\* order of the keys under Array.prototype.sort (names are unique)
KeyLess(a, b) == a[1] < b[1]

RECURSIVE InsertKey(_, _)
InsertKey(k, s) ==
  IF s = <<>> THEN <<k>>
  ELSE IF KeyLess(k, Head(s)) THEN <<k>> \o s
  ELSE <<Head(s)>> \o InsertKey(k, Tail(s))

RECURSIVE SortedCopy(_)
SortedCopy(s) == IF s = <<>> THEN <<>> ELSE InsertKey(Head(s), SortedCopy(Tail(s)))

PackageKeysUnsorted(keys) == keys
\* const packageKeys = [...packagesToRelease.keys()].sort()
PackageKeys(keys) == SortedCopy(keys)

MismatchAlways(json, optionsNew) == TRUE
\* the findIndex test of changePackageOptions
Mismatch(json, optionsNew) ==
  json.version # optionsNew.version \/ json.gitHead # optionsNew.gitHead

\* optionsOld of changePackageOptions: taken from pkg, not from the file
OptionsOld(p) == [version |-> pkg[p].version, gitHead |-> pkg[p].gitHead]

BumpOptions(p) == [version |-> SemverInc(pkg[p].version), gitHead |-> GitHeadNow]
RestoreOptions(p) == [version |-> pkg[p].version, gitHead |-> pkg[p].gitHead]

\* the line a restore task prints, from what changePackageOptions returned
RestoreLine(p, ret) ==
  LET vold == IF ret.version = Undefined THEN pkg[p].version ELSE ret.version
      vnew == IF vold # pkg[p].version THEN pkg[p].version ELSE Undefined
  IN [vold |-> vold, vnew |-> vnew]

\* if (code !== 0)
ViewFailed(code) == code # "ok"

ViewThrowsNever(code) == FALSE
\* json?.error?.code !== "E404" under code !== 0
ViewThrows(code) == ViewFailed(code) /\ code # "E404"

ViewSchedulesAll(code) == ~ViewThrows(code)
\* reaching packagesToRelease.set: a failed view that did not throw
ViewSchedules(code) == ViewFailed(code) /\ ~ViewThrows(code)

TryCoversNoBump(at) == at \in {"switch", "prepublish", "publish", "postpublish", "disttag"}
\* the positions of the main flow inside the outer try block
TryCovers(at) == at \in {"switch", "bump", "prepublish", "publish", "postpublish", "disttag"}

PostpublishSkippedOnError(publishFailed) == ~publishFailed
\* the inner finally: postpublish runs whatever publish did
RunsPostpublish(publishFailed) == TRUE

\* ------------------------------------------------------------------ Init
Init ==
  /\ argsType \in {"ci", "release", Undefined}
  /\ pc = "start"
  /\ error = "none"
  /\ pendingError = "none"
  /\ packages = {}
  /\ pkg = [p \in Workspace |-> NotLoaded]
  /\ disk \in {d \in [Workspace -> [version : Versions, gitHead : {Undefined}]] :
                 \A p \in Workspace \ Discover(Workspace) : d[p].version = Plain}
  /\ bump = [p \in Workspace |-> "idle"]
  /\ viewCode = [p \in Workspace |-> "none"]
  /\ packagesToRelease = <<>>
  /\ dtag = [p \in Workspace |-> "idle"]
  /\ rest = [p \in Workspace |-> "idle"]
  /\ restoreLog = [p \in Workspace |-> NoLine]
  /\ calls = <<>>
  /\ console = <<>>
  /\ writes = [p \in Workspace |-> {}]
  /\ codes = [c \in MainCommands |-> "none"]

\* ------------------------------------------------- main-flow continuations
\* the process ends with the exception err (or normally, "none")
Exit(err) ==
  /\ pc' = "done"
  /\ error' = err

\* the outer finally block: header, then every restore task starts its read
StartRestore(err, cons) ==
  /\ error' = err
  /\ console' = Append(cons, "Restoring old package versions:")
  /\ rest' = [p \in Workspace |-> IF p \in packages THEN "read" ELSE "idle"]
  /\ pc' = IF packages = {} THEN "done" ELSE "restore"

\* an exception raised by the main flow at position at
Throw(at, err, cons) ==
  IF TryCovers(at)
    THEN StartRestore(err, cons)
    ELSE /\ Exit(err)
         /\ console' = cons
         /\ UNCHANGED rest

\* "Submitting:" and the prepublishOnly hook
StartSubmit(cons) ==
  /\ console' = Append(cons, "Submitting:")
  /\ calls' = Append(calls, Call("npm run prepublishOnly", NoKey))
  /\ pc' = "prepublish"
  /\ UNCHANGED <<error, rest>>

\* the edge dist-tag fan-out, after the switch
StartDistTag ==
  LET keys == PackageKeys(packagesToRelease)
      cons == Append(console, "Updating dist-tags (edge):")
  IN /\ calls' = calls \o [i \in 1..Len(keys) |-> Call("npm dist-tag add", keys[i])]
     /\ dtag' = [p \in Workspace |->
                   IF \E i \in 1..Len(keys) : keys[i][1] = p THEN "run" ELSE "idle"]
     /\ IF keys = <<>>
          THEN StartRestore("none", cons)
          ELSE /\ pc' = "disttag"
               /\ console' = cons
               /\ UNCHANGED <<error, rest>>

\* ------------------------------------------------------------ main flow
\* parseArgs, then npm query .workspace is spawned
Start ==
  /\ pc = "start"
  /\ pc' = "query"
  /\ calls' = Append(calls, Call("npm query", NoKey))
  /\ UNCHANGED <<argsType, error, pendingError, packages, pkg, disk, bump,
                 viewCode, packagesToRelease, dtag, rest, restoreLog, console,
                 writes,
                 codes>>

QueryDone ==
  /\ pc = "query"
  /\ \E ok \in BOOLEAN :
       /\ Exited("query", ok)
       /\ IF ok
         THEN /\ packages' = Discover(Workspace)
              /\ pkg' = [p \in Workspace |->
                           IF p \in Discover(Workspace) THEN disk[p] ELSE NotLoaded]
              /\ calls' = Append(calls, Call("git describe", NoKey))
              /\ pc' = "describe"
              /\ UNCHANGED <<error, console, rest>>
         ELSE /\ Throw("query", "query", console)
              /\ UNCHANGED <<packages, pkg, calls>>
  /\ UNCHANGED <<argsType, pendingError, disk, bump, viewCode,
                 packagesToRelease, dtag, restoreLog, writes>>

DescribeDone ==
  /\ pc = "describe"
  /\ \E ok \in BOOLEAN :
       /\ Exited("describe", ok)
       /\ IF ok
         THEN /\ calls' = Append(calls, Call("git rev-parse", NoKey))
              /\ pc' = "revparse"
              /\ UNCHANGED <<error, console, rest>>
         ELSE /\ Throw("describe", "describe", console)
              /\ UNCHANGED calls
  /\ UNCHANGED <<argsType, pendingError, packages, pkg, disk, bump, viewCode,
                 packagesToRelease, dtag, restoreLog, writes>>

\* the working part of a bump task's first synchronous stretch
BumpStartOf(p) == IF SemverInc(pkg[p].version) = Undefined THEN "done" ELSE "read"

\* git rev-parse returned; the try block is entered and the switch runs
RevParseDone ==
  /\ pc = "revparse"
  /\ \E ok \in BOOLEAN :
       /\ Exited("revparse", ok)
       /\ IF ~ok
         THEN /\ Throw("revparse", "revparse", console)
              /\ UNCHANGED <<bump, calls>>
         ELSE IF argsType # "ci"
           THEN /\ Throw("switch", "config", console)
                /\ UNCHANGED <<bump, calls>>
           ELSE LET cons == Append(console, "Updating package versions:")
                    b == [p \in Workspace |->
                            IF p \in packages THEN BumpStartOf(p) ELSE "idle"]
                IN /\ bump' = b
                   /\ IF \A p \in packages : b[p] = "done"
                        THEN StartSubmit(cons)
                        ELSE /\ pc' = "bump"
                             /\ console' = cons
                             /\ UNCHANGED <<error, rest, calls>>
  /\ UNCHANGED <<argsType, pendingError, packages, pkg, disk, viewCode,
                 packagesToRelease, dtag, restoreLog, writes>>

\* ------------------------------------------------------------ bump tasks
\* npm view is spawned by task p
SpawnView(p) == calls' = Append(calls, Call("npm view", PkgFullName(p)))

\* changePackageOptions of the bump: readFile returned
BumpRead(p) ==
  /\ pc # "done"
  /\ bump[p] = "read"
  /\ IF Mismatch(disk[p], BumpOptions(p))
       THEN /\ bump' = [bump EXCEPT ![p] = "write"]
            /\ UNCHANGED calls
       ELSE /\ bump' = [bump EXCEPT ![p] = "view"]
            /\ SpawnView(p)
  /\ UNCHANGED <<argsType, pc, error, pendingError, packages, pkg, disk,
                 viewCode, packagesToRelease, dtag, rest, restoreLog, console,
                 writes,
                 codes>>

\* changePackageOptions of the bump: writeFile returned, npm view is spawned
BumpWrite(p) ==
  /\ pc # "done"
  /\ bump[p] = "write"
  /\ disk' = [disk EXCEPT ![p] = BumpOptions(p)]
  /\ writes' = [writes EXCEPT ![p] = @ \cup {"bump"}]
  /\ bump' = [bump EXCEPT ![p] = "view"]
  /\ SpawnView(p)
  /\ UNCHANGED <<argsType, pc, error, pendingError, packages, pkg, viewCode,
                 packagesToRelease, dtag, rest, restoreLog, console,
                 codes>>

\* npm view returned to task p
BumpView(p) ==
  /\ pc # "done"
  /\ bump[p] = "view"
  /\ \E code \in {"ok", "E404", "other"} :
       /\ viewCode' = [viewCode EXCEPT ![p] = code]
       /\ IF ViewThrows(code)
            THEN \* the task rejects; Promise.all rejects on the first one
                 /\ bump' = [bump EXCEPT ![p] = "failed"]
                 /\ UNCHANGED packagesToRelease
                 /\ IF pc = "bump"
                      THEN /\ Throw("bump", "view", console)
                           /\ UNCHANGED calls
                      ELSE UNCHANGED <<pc, error, rest, console, calls>>
            ELSE /\ bump' = [bump EXCEPT ![p] = "done"]
                 /\ packagesToRelease' =
                      IF ViewSchedules(code)
                        THEN Append(packagesToRelease, PkgFullName(p))
                        ELSE packagesToRelease
                 /\ IF pc = "bump" /\ \A q \in packages : bump'[q] = "done"
                      THEN StartSubmit(console)
                      ELSE UNCHANGED <<pc, error, rest, console, calls>>
  /\ UNCHANGED <<argsType, pendingError, packages, pkg, disk, dtag,
                 restoreLog, writes,
                 codes>>

\* ------------------------------------------------------------- publish
PrepublishDone ==
  /\ pc = "prepublish"
  /\ \E ok \in BOOLEAN :
       /\ Exited("prepublish", ok)
       /\ IF ok
         THEN /\ calls' = Append(calls, Call("npm publish", NoKey))
              /\ pc' = "publish"
              /\ UNCHANGED <<error, console, rest>>
         ELSE /\ Throw("prepublish", "prepublish", console)
              /\ UNCHANGED calls
  /\ UNCHANGED <<argsType, pendingError, packages, pkg, disk, bump, viewCode,
                 packagesToRelease, dtag, restoreLog, writes>>

\* npm publish returned: the inner finally spawns the postpublish hook
PublishDone ==
  /\ pc = "publish"
  /\ \E ok \in BOOLEAN :
       /\ Exited("publish", ok)
       /\ IF RunsPostpublish(~ok)
         THEN /\ calls' = Append(calls, Call("npm run postpublish", NoKey))
              /\ pendingError' = IF ok THEN "none" ELSE "publish"
              /\ pc' = "postpublish"
              /\ UNCHANGED <<error, console, rest>>
         ELSE /\ Throw("publish", "publish", console)
              /\ UNCHANGED <<calls, pendingError>>
  /\ UNCHANGED <<argsType, packages, pkg, disk, bump, viewCode,
                 packagesToRelease, dtag, restoreLog, writes>>

\* the postpublish hook returned: its own failure, else the held one
PostpublishDone ==
  /\ pc = "postpublish"
  /\ pendingError' = "none"
  /\ \E ok \in BOOLEAN :
       /\ Exited("postpublish", ok)
       /\ IF ~ok
         THEN /\ Throw("postpublish", "postpublish", console)
              /\ UNCHANGED <<calls, dtag>>
         ELSE IF pendingError # "none"
           THEN /\ Throw("postpublish", pendingError, console)
                /\ UNCHANGED <<calls, dtag>>
           ELSE StartDistTag
  /\ UNCHANGED <<argsType, packages, pkg, disk, bump, viewCode,
                 packagesToRelease, restoreLog, writes>>

\* npm dist-tag add returned to the task of package p
DistTagDone(p) ==
  /\ pc # "done"
  /\ dtag[p] = "run"
  /\ \E ok \in BOOLEAN :
       /\ dtag' = [dtag EXCEPT ![p] = IF ok THEN "done" ELSE "failed"]
       /\ IF pc = "disttag" /\ ~ok
            THEN Throw("disttag", "disttag", console)
            ELSE IF pc = "disttag" /\ \A q \in Workspace : dtag'[q] # "run"
              THEN StartRestore("none", console)
              ELSE UNCHANGED <<pc, error, console, rest>>
  /\ UNCHANGED <<argsType, pendingError, packages, pkg, disk, bump, viewCode,
                 packagesToRelease, restoreLog, calls, writes,
                 codes>>

\* --------------------------------------------------------- restore tasks
\* the restore fan-in: the process ends when the last task has finished
RestoreJoin ==
  IF \A q \in packages : rest'[q] = "done"
    THEN pc' = "done"
    ELSE UNCHANGED pc

\* changePackageOptions of the restore: readFile returned
RestoreRead(p) ==
  /\ pc = "restore"
  /\ rest[p] = "read"
  /\ IF Mismatch(disk[p], RestoreOptions(p))
       THEN /\ rest' = [rest EXCEPT ![p] = "write"]
            /\ UNCHANGED restoreLog
       ELSE /\ rest' = [rest EXCEPT ![p] = "done"]
            /\ restoreLog' = [restoreLog EXCEPT ![p] = RestoreLine(p, Null)]
  /\ RestoreJoin
  /\ UNCHANGED <<argsType, error, pendingError, packages, pkg, disk, bump,
                 viewCode, packagesToRelease, dtag, calls, console, writes,
                 codes>>

\* changePackageOptions of the restore: writeFile returned, the line is printed
RestoreWrite(p) ==
  /\ pc = "restore"
  /\ rest[p] = "write"
  /\ disk' = [disk EXCEPT ![p] = RestoreOptions(p)]
  /\ writes' = [writes EXCEPT ![p] = @ \cup {"restore"}]
  /\ rest' = [rest EXCEPT ![p] = "done"]
  /\ restoreLog' = [restoreLog EXCEPT ![p] = RestoreLine(p, OptionsOld(p))]
  /\ RestoreJoin
  /\ UNCHANGED <<argsType, error, pendingError, packages, pkg, bump,
                 viewCode, packagesToRelease, dtag, calls, console,
                 codes>>

\* ------------------------------------------------------------------ Next
Next ==
  \/ Start
  \/ QueryDone
  \/ DescribeDone
  \/ RevParseDone
  \/ \E p \in Workspace : BumpRead(p)
  \/ \E p \in Workspace : BumpWrite(p)
  \/ \E p \in Workspace : BumpView(p)
  \/ PrepublishDone
  \/ PublishDone
  \/ PostpublishDone
  \/ \E p \in Workspace : DistTagDone(p)
  \/ \E p \in Workspace : RestoreRead(p)
  \/ \E p \in Workspace : RestoreWrite(p)

Spec == Init /\ [][Next]_vars

\* ============================================================ properties
Range(f) == {f[i] : i \in DOMAIN f}
CallsOf(cmd) == SelectSeq(calls, LAMBDA c : c.cmd = cmd)
DistTagCalls == CallsOf("npm dist-tag add")
IndexOf(cmd) == CHOOSE i \in DOMAIN calls : calls[i].cmd = cmd
Bumped(p) == SemverInc(pkg[p].version) # Undefined
RestoreHeader == "Restoring old package versions:"
RestoreExecuted ==
  /\ RestoreHeader \in Range(console)
  /\ \A p \in packages : rest[p] = "done"

\* C1: once the process has terminated, the version and gitHead fields of
\* every discovered package.json equal the values they had at discovery,
\* whether the run succeeded or failed in the bump, publish or tag phase.
C1_RestoredAtExit ==
  pc = "done" => \A p \in packages : disk[p] = pkg[p]

\* C2: when --type is omitted or is not "ci", the run ends with the
\* configuration error, no external process is ever spawned and no manifest
\* is written.
C2_ConfigErrorBeforeSideEffects ==
  argsType # "ci" =>
    /\ calls = <<>>
    /\ \A p \in Workspace : writes[p] = {}
    /\ pc = "done" => error = "config"

\* C3: a bump task whose npm view answered E404 has its name@version in
\* packagesToRelease; once some npm view answered with another error,
\* neither the prepublishOnly hook nor npm publish is invoked in the run.
C3_RegistryCheck ==
  /\ \A p \in packages :
       viewCode[p] = "E404" => PkgFullName(p) \in Range(packagesToRelease)
  /\ (\E p \in packages : viewCode[p] = "other") =>
       /\ CallsOf("npm run prepublishOnly") = <<>>
       /\ CallsOf("npm publish") = <<>>

C3_Witness ==
  /\ pc = "done"
  /\ \E p, q \in packages :
       /\ viewCode[p] = "E404"
       /\ PkgFullName(p) \in Range(packagesToRelease)
       /\ viewCode[q] = "other"

PostpublishOnceAfterPublish ==
  /\ Len(CallsOf("npm run postpublish")) = 1
  /\ Len(CallsOf("npm publish")) = 1
  /\ IndexOf("npm publish") < IndexOf("npm run postpublish")

\* C4 as stated: when npm publish failed (bump and prepublishOnly having
\* succeeded), postpublish ran exactly once and after publish, restore ran
\* for every discovered package, and the process ends with the publish error.
C4_PublishErrorSurfaces ==
  (pc = "done" /\ codes["publish"] = "fail") =>
    /\ PostpublishOnceAfterPublish
    /\ RestoreExecuted
    /\ error = "publish"

\* C4 amended: as above, but the process ends with the publish error when
\* the postpublish hook succeeded and with the postpublish hook's own error
\* when that hook failed too.
C4_PublishFailure ==
  (pc = "done" /\ codes["publish"] = "fail") =>
    /\ PostpublishOnceAfterPublish
    /\ RestoreExecuted
    /\ error = IF codes["postpublish"] = "fail" THEN "postpublish" ELSE "publish"

C4_Witness ==
  /\ pc = "done"
  /\ codes["publish"] = "fail"
  /\ codes["postpublish"] = "ok"
  /\ error = "publish"
  /\ \E p \in packages : "restore" \in writes[p]

\* C5 as stated: a run that aborted on a failed npm query, git describe,
\* git rev-parse or on a registry error other than not-found has executed
\* the restore step when the process ends.
C5_RestoreOnEveryAbort ==
  (pc = "done" /\ error \in {"query", "describe", "revparse", "view"}) =>
    RestoreExecuted

\* C5 amended: a run that aborted on a registry error other than not-found
\* has executed the restore step for every discovered package when the
\* process ends; a run that aborted on a failed npm query, git describe or
\* git rev-parse ends without running the restore step, having written no
\* manifest.
C5_RestoreOnAbort ==
  pc = "done" =>
    /\ error = "view" => RestoreExecuted
    /\ error \in {"query", "describe", "revparse"} =>
         /\ RestoreHeader \notin Range(console)
         /\ \A p \in Workspace : rest[p] = "idle" /\ writes[p] = {}

C5_Witness ==
  /\ pc = "done"
  /\ error = "view"
  /\ RestoreExecuted
  /\ \E p \in packages : "restore" \in writes[p]

\* C6: the npm dist-tag add calls are spawned in strictly ascending order of
\* their name@version key and cover exactly the release candidates, so the
\* sequence depends on the candidate set only, not on the insertion order.
C6_TagOrder ==
  /\ \A i, j \in DOMAIN DistTagCalls :
       i < j => KeyLess(DistTagCalls[i].key, DistTagCalls[j].key)
  /\ DistTagCalls # <<>> =>
       {c.key : c \in Range(DistTagCalls)} = Range(packagesToRelease)

C6_Witness ==
  /\ Len(DistTagCalls) >= 2
  /\ KeyLess(packagesToRelease[2], packagesToRelease[1])

\* C7: every writeFile changes the fields on disk (a manifest is written
\* only when a proposed field differs), and a package for which no new
\* version is computed is written by neither the bump nor the restore phase.
C7_WriteOnlyOnMismatch ==
  /\ [][\A p \in Workspace : writes'[p] # writes[p] => disk'[p] # disk[p]]_vars
  /\ [](\A p \in packages : ~Bumped(p) => writes[p] = {} /\ disk[p] = pkg[p])

C7_Witness ==
  /\ pc = "done"
  /\ \E p, q \in packages :
       /\ ~Bumped(p) /\ rest[p] = "done" /\ writes[p] = {}
       /\ writes[q] = {"bump", "restore"}

\* C8: every edge dist-tag call is for a pair the registry reported not
\* found, and is made after npm publish and the postpublish hook both
\* succeeded; a package whose bumped version is already published is bumped
\* on disk but gets no edge call; a run whose publish failed makes none.
C8_EdgeOnlyForCandidates ==
  /\ \A c \in Range(DistTagCalls) :
       /\ \E p \in packages : c.key = PkgFullName(p) /\ viewCode[p] = "E404"
       /\ codes["publish"] = "ok" /\ codes["postpublish"] = "ok"
  /\ \A p \in packages : viewCode[p] = "ok" =>
       /\ "bump" \in writes[p]
       /\ \A c \in Range(DistTagCalls) : c.key[1] # p
  /\ codes["publish"] = "fail" => DistTagCalls = <<>>

C8_Witness ==
  /\ DistTagCalls # <<>>
  /\ \E p \in packages : viewCode[p] = "ok" /\ "bump" \in writes[p]

BumpInFlight(p) == bump[p] \in {"read", "write", "view"}
RestoreInFlight(p) == rest[p] \in {"read", "write"}

\* C9: no bump task and restore task of the same package.json are in flight
\* at the same time; in particular no bump task has a read or a write of the
\* manifest pending once the restore step has started on it.
C9_NoOverlap ==
  \A p \in packages :
    /\ ~(BumpInFlight(p) /\ RestoreInFlight(p))
    /\ rest[p] # "idle" => bump[p] \notin {"read", "write"}

\* C10: the line a restore task prints reports old (bumped) -> new
\* (original) when the task rewrote the manifest, and [no change] only when
\* it did not write it.
C10_RestoreLine ==
  \A p \in packages : rest[p] = "done" =>
    /\ "restore" \in writes[p] =>
         restoreLog[p] = [vold |-> SemverInc(pkg[p].version),
                          vnew |-> pkg[p].version]
    /\ restoreLog[p].vnew = Undefined => "restore" \notin writes[p]
====
